---- MODULE Spec2Model ----
(***************************************************************************)
(* OCTGui: the hand-off of raw frames from the UI context (file playback,  *)
(* MainWindow::loadFrame) and from the acquisition context (DAQ::acquire)  *)
(* through the ring buffer to the reconstruction worker.                   *)
(*                                                                         *)
(* RingBuffer.hpp and ReconWorker.hpp are not among the sources; their     *)
(* operations are modelled from the specification (sections 4.1 and 5).    *)
(* MainWindow.cpp, DAQ.cpp and AcquisitionController.* are modelled from   *)
(* the code.                                                               *)
(***************************************************************************)
EXTENDS Integers, Sequences, FiniteSets, TLC

\* ------------------------------------------------------------- bounds
\* Largest ring capacity K explored (K ranges over 1..MaxK).
MaxK == 2
\* Largest number of frames of a loaded sequence (m_datReader.size()).
MaxSeq == 2
\* Largest samplesPerFrame of a loaded sequence.
MaxSamples == 2
\* Most UI events (slider moves, loads) of one run of the program.
MaxEvents == 3
\* Largest N of the round trip (N produce calls, then N consume calls).
MaxN == 3

\* Largest buffersToAcquire of an acquisition run.
MaxBuffers == 3
\* Most UI events, and largest buffersToAcquire, when the UI context, the
\* acquisition context and the worker run together (SpecApp).
MaxAppEvents == 2
MaxAppBuffers == 1
\* Most acquisition runs of one run of the program.
MaxRuns == 2
\* buffers.size(): the hardware buffers of the pool (P).
NumBuffers == 2
\* buf.size(): the samples of one hardware buffer.
BufSize == 2

\* DatFileReader::ALineSize, the samples of one A-line (its value is set
\* outside these sources).
ALineSize == 2
\* calls of quit()
MaxQuits == 3
\* acquisition runs where every step of acquire is followed to its return
MaxAcqRuns == 1
\* largest offset the phase correlation of two images gives
MaxOffset == 1
\* whole A-lines of a frame handed to reconBscan
MaxLines == 2
\* calls of reconBscan
MaxCalls == 3
\* samples of the A-line linearised on its own
LinSize == 3
\* samples logCompress is asked to write when called on its own
MaxDepth == 2
\* columns of the image shifted on its own, and the largest offset tried
MaxCols == 3
MaxShift == 7
\* imageDepth, the default of reconBscan
ImageDepth == 624

NoSlot == 0 - 1

VARIABLES
  \* ring buffer
  K,            \* capacity, fixed at construction
  buffer,       \* buffer[s] = [i |-> frame index, fringe |-> samples]
  ready,        \* readiness flag of each slot
  head,         \* next slot in round-robin order
  held,         \* the slot the consumer holds, or NoSlot
  quitSignal,   \* quit() has been called
  \* UI context (MainWindow)
  uiPc, uiI, uiSlot, uiEvents, framePos,
  m_calib,      \* the calibration object m_calib points to; 0 is nullptr
  datOk,        \* m_datReader.ok()
  datSize,      \* m_datReader.size()
  datSamples,   \* m_datReader.samplesPerFrame()
  \* reconstruction worker
  wPc, wLive, noBlockMode, wShouldStop, got, shutdownSeen,
  \* history: records as submitted / as returned
  submitted, consumed,
  consumedLive, \* consumedLive[n]: consumed[n] was returned by a live consume
  \* round trip driver: N
  rtN,
  \* acquisition context (AcquisitionControllerObj, DAQ)
  aPc,
  sigStarted,   \* sigAcquisitionStarted is queued for the UI context
  m_acquiring, shouldStopAcquiring, acquiringData,
  ret, success,
  buffersToAcquire, buffersCompleted, bufferIdx, postIdx,
  posted,       \* posted[b]: hardware buffer b is posted to the board
  m_errMsg,
  fsState,      \* m_fs: "closed", "open", or "failed" (open, failbit set)
  aSlot,        \* the slot produce_nolock works on
  retVal,       \* what acquire returned
  \* history of the current acquisition run
  runs, waitRet, writeFailed, writeReported, abortCalls,
  \* calibrations
  calibHeap,    \* the Calibration objects made so far; calibHeap[c] is object c
  wCalib,       \* the object the worker's calibration pointer refers to (0: none)
  \* reconstruction (reconBscan)
  reconN,       \* records of consumed the worker has passed on to reconBscan
  rPc,          \* position inside reconBscan
  rFringe, rI,  \* the record being reconstructed
  rCalib,       \* the object the parameter calib refers to
  rBg, rPh,     \* what the call has read of calib.background / calib.phaseCalib
  prevMat,      \* static cv::Mat_<T> prevMat
  rOut,         \* the outcome of the last call
  rHist,        \* the calls that returned an image: arguments and image
  \* per run of acquire
  produced,     \* frames marked ready by produce_nolock
  fsWritten,    \* buffers m_fs.write has written
  quitCalls,    \* calls of quit() so far
  \* one function of the reconstruction, called on its own
  fnPc,         \* "idle", "call" (arguments bound), "done" (result stored)
  fnIn,         \* its arguments
  fnOut,        \* its result, and what it read
  \* acquisition control widget (AcquisitionController)
  wgEnabled,    \* the widget is enabled
  btnText,      \* text of m_btnStartStopAcquisition
  btnStyle,     \* its background colour
  wgPending,    \* handlers of sigAcquisitionStarted still queued for the widget
  startQueued   \* startAcquisition is queued for the controller thread

ringVars == <<buffer, ready, head, held, quitSignal>>
uiVars == <<uiPc, uiI, uiSlot, uiEvents, framePos, m_calib, datOk, datSize, datSamples>>
workerVars == <<wPc, wLive, noBlockMode, wShouldStop, got, shutdownSeen>>
histVars == <<submitted, consumed, consumedLive>>
\* a function called on its own
fnVars == <<fnPc, fnIn, fnOut>>
\* what no step of the window, the worker or the acquisition changes
widgetVars == <<wgEnabled, btnText, btnStyle, wgPending, startQueued>>
fixedVars == <<K, rtN, fnVars, widgetVars>>
ctlVars == <<m_acquiring, shouldStopAcquiring, acquiringData>>
callVars == <<ret, success>>
loopVars == <<buffersToAcquire, buffersCompleted, bufferIdx, postIdx>>
daqVars == <<ctlVars, callVars, loopVars, posted, m_errMsg, fsState, aSlot, retVal>>
runVars == <<runs, waitRet, writeFailed, writeReported, abortCalls>>
acqVars == <<aPc, sigStarted, daqVars, runVars>>
\* the calibration objects, and the worker's reference to one
calibVars == <<calibHeap, wCalib>>
\* reconBscan as called by the worker
reconVars == <<reconN, rPc, rFringe, rI, rCalib, rBg, rPh, prevMat, rOut, rHist>>
\* what the hand-off of frames leaves alone
countVars == <<produced, fsWritten, quitCalls>>
restVars == <<fixedVars, calibVars, reconVars, countVars>>
vars == <<restVars, ringVars, uiVars, workerVars, histVars, acqVars>>

\* ------------------------------------------------------------- payloads
NoArgs == [fn |-> "none"]
NoResult == [fn |-> "none"]
Slots == 0 .. (K - 1)

Min(S) == CHOOSE x \in S : \A y \in S : x <= y

\* n samples of value v
Fill(n, v) == [k \in 1 .. n |-> v]

\* The samples of frame i (of a file, or the i-th completed hardware buffer):
\* every sample carries the tag i + 1; 0 is value-initialised storage.
FrameData(i, n) == Fill(n, i + 1)

\* std::vector::resize: keeps the leading elements, value-initialises new ones
Resize(f, n) == [k \in 1 .. n |-> IF k <= Len(f) THEN f[k] ELSE 0]

\* std::copy of src over the leading elements of f
CopyInto(f, src) == [k \in 1 .. Len(f) |-> IF k <= Len(src) THEN src[k] ELSE f[k]]

\* std::clamp(i, lo, hi)
Clamp(i, lo, hi) == IF i < lo THEN lo ELSE IF hi < i THEN hi ELSE i

EmptyRecord == [i |-> 0, fringe |-> <<>>]

\* ------------------------------------------------------------- ring buffer
AnyReady == \E s \in Slots : ready[s]

\* A slot the producer may take in blocking mode: neither waiting to be
\* consumed nor held by the consumer.
SlotFree(s) == ~ready[s] /\ held # s

\* The oldest ready slot: the first ready one in round-robin order from head.
OldestReady == (head + Min({d \in 0 .. (K - 1) : ready[(head + d) % K]})) % K

\* The most recently completed ready slot: the first ready one going back
\* from head - 1.
NewestReady == (head + K - Min({d \in 1 .. K : ready[(head + K - d) % K]})) % K

\* produce / produceNoWait: mark slot s ready and advance round-robin
MarkReady(s) ==
  /\ ready' = [ready EXCEPT ![s] = TRUE]
  /\ head' = (head + 1) % K

\* consume, blocking mode: take the oldest ready slot
TakeOldest ==
  /\ held' = OldestReady
  /\ ready' = [ready EXCEPT ![OldestReady] = FALSE]

\* forEach(fn) with fn = resize the samples to n
ForEachResize(n) ==
  buffer' = [s \in Slots |-> [buffer[s] EXCEPT !.fringe = Resize(buffer[s].fringe, n)]]

\* A faulty variant of Quit: the call flips the flag.
QuitToggles == quitSignal' = ~quitSignal

\* quit()
Quit == quitSignal' = TRUE

\* ------------------------------------------------------------- UI context
\* MainWindow::loadFrame(i), up to the call of produce
LoadFrameEnter(i) ==
  IF m_calib' # 0 /\ datOk'
  THEN /\ uiI' = Clamp(i, 0, datSize')
       /\ uiPc' = "produce"
  ELSE /\ uiPc' = "idle"
       /\ UNCHANGED uiI

\* FrameController::posChanged -> MainWindow::loadFrame
PosChanged(i) ==
  /\ uiPc = "idle"
  /\ uiEvents' = uiEvents + 1
  /\ framePos' = i
  /\ UNCHANGED <<uiSlot, m_calib, datOk, datSize, datSamples>>
  /\ LoadFrameEnter(i)
  /\ UNCHANGED <<restVars, ringVars, workerVars, histVars, acqVars>>

\* A faulty variant of ProduceWait: loadFrame calls the variant of produce that does
\* not wait for the slot.
ProduceWithoutWait ==
  /\ uiPc = "produce"
  /\ uiSlot' = head
  /\ uiPc' = "mutate"
  /\ UNCHANGED <<uiI, uiEvents, framePos, m_calib, datOk, datSize, datSamples>>
  /\ UNCHANGED <<restVars, ringVars, workerVars, histVars, acqVars>>

\* produce: the wait for a free slot
ProduceWait ==
  /\ uiPc = "produce"
  /\ SlotFree(head)
  /\ uiSlot' = head
  /\ uiPc' = "mutate"
  /\ UNCHANGED <<uiI, uiEvents, framePos, m_calib, datOk, datSize, datSamples>>
  /\ UNCHANGED <<restVars, ringVars, workerVars, histVars, acqVars>>

\* A faulty variant of LoadFrameWriteIndex: the callback leaves dat->i as it was.
LoadFrameKeepIndex ==
  /\ uiPc = "mutate"
  /\ uiPc' = "read"
  /\ UNCHANGED <<uiI, uiSlot, uiEvents, framePos, m_calib, datOk, datSize, datSamples>>
  /\ UNCHANGED <<restVars, ringVars, workerVars, histVars, acqVars>>

\* the mutate callback of loadFrame: dat->i = i
LoadFrameWriteIndex ==
  /\ uiPc = "mutate"
  /\ buffer' = [buffer EXCEPT ![uiSlot].i = uiI]
  /\ uiPc' = "read"
  /\ UNCHANGED <<uiI, uiSlot, uiEvents, framePos, m_calib, datOk, datSize, datSamples>>
  /\ UNCHANGED <<ready, head, held, quitSignal>>
  /\ UNCHANGED <<restVars, workerVars, histVars, acqVars>>

\* m_datReader.read(i, 1, dat->fringe): an error leaves the samples as they are
ReadFrame(f, i) ==
  IF i < datSize /\ datSamples <= Len(f) THEN CopyInto(f, FrameData(i, datSamples)) ELSE f

\* the mutate callback of loadFrame: the read; then produce marks the slot ready
LoadFrameRead ==
  /\ uiPc = "read"
  /\ buffer' = [buffer EXCEPT ![uiSlot].fringe = ReadFrame(buffer[uiSlot].fringe, uiI)]
  /\ MarkReady(uiSlot)
  /\ submitted' = Append(submitted,
        [i |-> uiI, fringe |-> ReadFrame(buffer[uiSlot].fringe, uiI)])
  /\ uiPc' = "idle"
  /\ UNCHANGED <<uiI, uiSlot, uiEvents, framePos, m_calib, datOk, datSize, datSamples>>
  /\ UNCHANGED <<held, quitSignal, consumed, consumedLive>>
  /\ UNCHANGED <<restVars, workerVars, acqVars>>

\* the handler of sigAcquisitionStarted (UI context):
\* m_worker->setNoBlockMode(true)
OnAcquisitionStarted ==
  /\ uiPc = "idle"
  /\ sigStarted
  /\ sigStarted' = FALSE
  /\ noBlockMode' = TRUE
  /\ UNCHANGED <<wPc, wLive, wShouldStop, got, shutdownSeen>>
  /\ UNCHANGED <<aPc, daqVars, runVars>>
  /\ UNCHANGED <<restVars, ringVars, uiVars, histVars>>

\* What fromCalibDir reads from the directory handed to the v-th load: the
\* background and the phase table of that directory.
CalibFiles(v) == [background |-> v, phase |-> v]

\* A faulty variant of TryLoadCalibDirectory: the files are read into the
\* Calibration object the worker already uses.
TryLoadCalibDirectoryInPlace(okc) ==
  /\ uiPc = "idle"
  /\ uiEvents' = uiEvents + 1
  /\ IF okc
     THEN IF m_calib = 0
          THEN /\ calibHeap' = Append(calibHeap, CalibFiles(uiEvents + 1))
               /\ m_calib' = Len(calibHeap) + 1
               /\ wCalib' = Len(calibHeap) + 1
          ELSE /\ calibHeap' = [calibHeap EXCEPT ![m_calib] = CalibFiles(uiEvents + 1)]
               /\ wCalib' = m_calib
               /\ UNCHANGED m_calib
     ELSE /\ m_calib' = 0
          /\ UNCHANGED <<calibHeap, wCalib>>
  /\ UNCHANGED <<datOk, datSize, datSamples, framePos, uiSlot>>
  /\ IF okc /\ datOk
     THEN LoadFrameEnter(framePos)
     ELSE UNCHANGED <<uiPc, uiI>>
  /\ UNCHANGED <<fixedVars, reconVars, countVars, ringVars, workerVars, histVars, acqVars>>

\* MainWindow::tryLoadCalibDirectory: okc = fromCalibDir found the files and
\* made a new Calibration object; m_worker->setCalibration(m_calib)
TryLoadCalibDirectory(okc) ==
  /\ uiPc = "idle"
  /\ uiEvents' = uiEvents + 1
  /\ IF okc
     THEN /\ calibHeap' = Append(calibHeap, CalibFiles(uiEvents + 1))
          /\ m_calib' = Len(calibHeap) + 1
          /\ wCalib' = Len(calibHeap) + 1
     ELSE /\ m_calib' = 0
          /\ UNCHANGED <<calibHeap, wCalib>>
  /\ UNCHANGED <<datOk, datSize, datSamples, framePos, uiSlot>>
  /\ IF okc /\ datOk
     THEN LoadFrameEnter(framePos)
     ELSE UNCHANGED <<uiPc, uiI>>
  /\ UNCHANGED <<fixedVars, reconVars, countVars, ringVars, workerVars, histVars, acqVars>>

\* tryLoadBinfile / tryLoadDatDirectory up to the forEach of
\* afterDatReaderReady: ok = the reader is ok, with n frames of spf samples
LoadSequence(ok, n, spf) ==
  /\ uiPc = "idle"
  /\ uiEvents' = uiEvents + 1
  /\ datOk' = ok
  /\ datSize' = IF ok THEN n ELSE 0
  /\ datSamples' = IF ok THEN spf ELSE 0
  /\ framePos' = IF ok THEN 0 ELSE framePos
  /\ uiPc' = IF ok THEN "forEach" ELSE "idle"
  /\ UNCHANGED <<uiI, uiSlot, m_calib>>
  /\ UNCHANGED <<restVars, ringVars, workerVars, histVars, acqVars>>

\* MainWindow::tryLoadBinfile
TryLoadBinfile(ok, n, spf) == LoadSequence(ok, n, spf)

\* MainWindow::tryLoadDatDirectory
TryLoadDatDirectory(ok, n, spf) == LoadSequence(ok, n, spf)

\* A faulty variant of AfterDatReaderReady: the slots are not resized before the
\* first frame is loaded.
AfterDatReaderReadyNoResize ==
  /\ uiPc = "forEach"
  /\ UNCHANGED <<uiSlot, uiEvents, framePos, m_calib, datOk, datSize, datSamples>>
  /\ LoadFrameEnter(0)
  /\ UNCHANGED <<buffer, ready, head, held, quitSignal>>
  /\ UNCHANGED <<restVars, workerVars, histVars, acqVars>>

\* afterDatReaderReady: m_ringBuffer->forEach(resize to samplesPerFrame);
\* then the caller's loadFrame(0)
AfterDatReaderReady ==
  /\ uiPc = "forEach"
  /\ ForEachResize(datSamples)
  /\ UNCHANGED <<uiSlot, uiEvents, framePos, m_calib, datOk, datSize, datSamples>>
  /\ LoadFrameEnter(0)
  /\ UNCHANGED <<ready, head, held, quitSignal>>
  /\ UNCHANGED <<restVars, workerVars, histVars, acqVars>>

\* A faulty variant of CloseEvent: the window closes without calling quit().
CloseEventWithoutQuit ==
  /\ uiPc = "idle"
  /\ uiPc' = "closeStop"
  /\ UNCHANGED <<uiI, uiSlot, uiEvents, framePos, m_calib, datOk, datSize, datSamples>>
  /\ UNCHANGED <<restVars, ringVars, workerVars, histVars, acqVars>>

\* MainWindow::closeEvent: m_ringBuffer->quit()
CloseEvent ==
  /\ uiPc = "idle"
  /\ Quit
  /\ quitCalls' = quitCalls + 1
  /\ uiPc' = "closeStop"
  /\ UNCHANGED <<uiI, uiSlot, uiEvents, framePos, m_calib, datOk, datSize, datSamples>>
  /\ UNCHANGED <<buffer, ready, head, held>>
  /\ UNCHANGED <<fixedVars, calibVars, reconVars, produced, fsWritten>>
  /\ UNCHANGED <<workerVars, histVars, acqVars>>

\* MainWindow::closeEvent: m_worker->setShouldStop(true)
CloseSetShouldStop ==
  /\ uiPc = "closeStop"
  /\ wShouldStop' = TRUE
  /\ uiPc' = "closeWait"
  /\ UNCHANGED <<uiI, uiSlot, uiEvents, framePos, m_calib, datOk, datSize, datSamples>>
  /\ UNCHANGED <<wPc, wLive, noBlockMode, got, shutdownSeen>>
  /\ UNCHANGED <<restVars, ringVars, histVars, acqVars>>

\* MainWindow::closeEvent: m_workerThread.quit(); m_workerThread.wait()
CloseWait ==
  /\ uiPc = "closeWait"
  /\ wPc = "done"
  /\ uiPc' = "closed"
  /\ UNCHANGED <<uiI, uiSlot, uiEvents, framePos, m_calib, datOk, datSize, datSamples>>
  /\ UNCHANGED <<restVars, ringVars, workerVars, histVars, acqVars>>

\* quit() called by a client of the ring buffer, whatever was called before
RingQuit ==
  /\ Quit
  /\ quitCalls' = quitCalls + 1
  /\ UNCHANGED <<buffer, ready, head, held>>
  /\ UNCHANGED <<fixedVars, calibVars, reconVars, produced, fsWritten>>
  /\ UNCHANGED <<uiVars, workerVars, histVars, acqVars>>

\* ------------------------------------------------------------- worker
\* ReconWorker: the loop test, and the mode the next consume is called with
WorkerLoop ==
  /\ wPc = "loop"
  /\ IF wShouldStop
     THEN wPc' = "done" /\ UNCHANGED wLive
     ELSE wPc' = "consume" /\ wLive' = noBlockMode
  /\ UNCHANGED <<noBlockMode, wShouldStop, got, shutdownSeen>>
  /\ UNCHANGED <<restVars, ringVars, uiVars, histVars, acqVars>>

\* consume(blocking): waits for a ready slot or for quit
ConsumeBlocking ==
  /\ wPc = "consume"
  /\ ~wLive
  /\ AnyReady \/ quitSignal
  /\ IF AnyReady
     THEN /\ TakeOldest
          /\ wPc' = "readIndex"
          /\ UNCHANGED shutdownSeen
     ELSE /\ shutdownSeen' = TRUE
          /\ wPc' = "loop"
          /\ UNCHANGED <<held, ready>>
  /\ UNCHANGED <<buffer, head, quitSignal>>
  /\ UNCHANGED <<wLive, noBlockMode, wShouldStop, got>>
  /\ UNCHANGED <<restVars, uiVars, histVars, acqVars>>

\* consume, live mode: the most recently completed slot; the backlog is dropped
TakeNewest ==
  /\ held' = NewestReady
  /\ ready' = [s \in Slots |-> FALSE]

\* consume(live): returns at once, with the freshest ready slot if there is one
ConsumeLive ==
  /\ wPc = "consume"
  /\ wLive
  /\ IF AnyReady
     THEN /\ TakeNewest
          /\ wPc' = "readIndex"
          /\ UNCHANGED shutdownSeen
     ELSE /\ shutdownSeen' = (shutdownSeen \/ quitSignal)
          /\ wPc' = "loop"
          /\ UNCHANGED <<held, ready>>
  /\ UNCHANGED <<buffer, head, quitSignal>>
  /\ UNCHANGED <<wLive, noBlockMode, wShouldStop, got>>
  /\ UNCHANGED <<restVars, uiVars, histVars, acqVars>>

\* the worker reads the record it holds: the index
WorkerReadIndex ==
  /\ wPc = "readIndex"
  /\ got' = [got EXCEPT !.i = buffer[held].i]
  /\ wPc' = "readFringe"
  /\ UNCHANGED <<wLive, noBlockMode, wShouldStop, shutdownSeen>>
  /\ UNCHANGED <<restVars, ringVars, uiVars, histVars, acqVars>>

\* the worker reads the samples, and gives the slot back
WorkerReadFringe ==
  /\ wPc = "readFringe"
  /\ consumed' = Append(consumed, [got EXCEPT !.fringe = buffer[held].fringe])
  /\ got' = EmptyRecord
  /\ consumedLive' = Append(consumedLive, wLive)
  /\ held' = NoSlot
  /\ wPc' = "loop"
  /\ UNCHANGED <<buffer, ready, head, quitSignal, submitted>>
  /\ UNCHANGED <<wLive, noBlockMode, wShouldStop, shutdownSeen>>
  /\ UNCHANGED <<restVars, uiVars, acqVars>>

\* ------------------------------------------------------------- reconstruction
\* nLines = fringe.size() / ALineSize
NLines(f) == Len(f) \div ALineSize

\* The columns of the image after the distortion correction: 2200 lines are
\* resized to 2000, any other number is kept.
TheoreticalALines(n) == IF n = 2200 THEN 2000 ELSE n

\* The worker passes the next record it consumed to reconBscan, with the
\* calibration it holds. assert((fringe.size() % ALineSize) == 0): assertOn
\* tells whether the build keeps assertions; a failed assertion aborts the
\* process, and without assertions the call goes on with the whole lines.
ReconEnter(assertOn) ==
  /\ rPc = "idle"
  /\ reconN < Len(consumed)
  /\ wCalib # 0
  /\ rFringe' = consumed[reconN + 1].fringe
  /\ rI' = consumed[reconN + 1].i
  /\ rCalib' = wCalib
  /\ rBg' = 0
  /\ rPh' = 0
  /\ rPc' = IF Len(consumed[reconN + 1].fringe) % ALineSize # 0 /\ assertOn
            THEN "aborted"
            ELSE "background"
  /\ UNCHANGED <<reconN, prevMat, rOut, rHist>>
  /\ UNCHANGED <<fixedVars, calibVars, countVars, ringVars, uiVars, workerVars, histVars, acqVars>>

\* 1. Subtract background: every line reads calib.background
ReconBackground ==
  /\ rPc = "background"
  /\ rBg' = IF NLines(rFringe) > 0 THEN calibHeap[rCalib].background ELSE rBg
  /\ rPc' = "phase"
  /\ UNCHANGED <<reconN, rFringe, rI, rCalib, rPh, prevMat, rOut, rHist>>
  /\ UNCHANGED <<fixedVars, calibVars, countVars, ringVars, uiVars, workerVars, histVars, acqVars>>

\* 2. Interpolate phase calibration data: every line reads calib.phaseCalib
ReconPhase ==
  /\ rPc = "phase"
  /\ rPh' = IF NLines(rFringe) > 0 THEN calibHeap[rCalib].phase ELSE rPh
  /\ rPc' = "align"
  /\ UNCHANGED <<reconN, rFringe, rI, rCalib, rBg, prevMat, rOut, rHist>>
  /\ UNCHANGED <<fixedVars, calibVars, countVars, ringVars, uiVars, workerVars, histVars, acqVars>>

\* The offsets std::round(cvMod::phaseCorrelate(prevMat, mat).x) may give for
\* two images that differ.
AlignOffsets == (0 - MaxOffset) .. MaxOffset

\* circshift: idx = (idx + mat.cols) % mat.cols
\* a % b of C++ for b > 0: the quotient is truncated towards zero, so the
\* result has the sign of a
CMod(a, b) == IF a >= 0 THEN a % b ELSE 0 - ((0 - a) % b)

CircIdx(idx, cols) == CMod(idx + cols, cols)

\* The image reconBscan has assembled from the frame, before the alignment
MatOf(f, i, c) ==
  [rows |-> ImageDepth, cols |-> TheoreticalALines(NLines(f)), calib |-> c,
   i |-> i, shift |-> 0]

SameSize(a, b) == a.cols = b.cols /\ a.rows = b.rows

\* A faulty variant of ReconAlign: the image is shifted whatever the size of
\* prevMat.
ReconAlignAlwaysShifts(offset) ==
  /\ rPc = "align"
  /\ LET mat == MatOf(rFringe, rI, rCalib)
         same == SameSize(prevMat, mat)
         out == [mat EXCEPT !.shift = IF mat.cols > 0 THEN CircIdx(offset, mat.cols) ELSE 0]
     IN /\ prevMat' = out
        /\ rOut' = [status |-> "image", samples |-> Len(rFringe), calib |-> rCalib,
                    alignedTo |-> IF same THEN prevMat.calib ELSE 0,
                    prevRows |-> prevMat.rows, prevCols |-> prevMat.cols,
                    mat |-> out]
        /\ rHist' = Append(rHist, [fringe |-> rFringe, calib |-> rCalib, mat |-> out])
        /\ rPc' = "idle"
  /\ reconN' = reconN + 1
  /\ UNCHANGED <<rFringe, rI, rCalib, rBg, rPh>>
  /\ UNCHANGED <<fixedVars, calibVars, countVars, ringVars, uiVars, workerVars, histVars, acqVars>>

\* mat = mat.t(); distortion correction; Align Bscans: when prevMat has the
\* size of mat, mat is shifted by its phase correlation with prevMat (onto
\* prevMat when both are images of the same frame; an image without columns
\* makes circshift divide by zero); then mat.copyTo(prevMat); return mat
ReconAlign(offset) ==
  /\ rPc = "align"
  /\ LET mat == MatOf(rFringe, rI, rCalib)
         same == SameSize(prevMat, mat)
         out == [mat EXCEPT !.shift =
                   IF same /\ mat.cols > 0
                   THEN IF [prevMat EXCEPT !.shift = 0] = mat
                        THEN prevMat.shift
                        ELSE CircIdx(offset, mat.cols)
                   ELSE 0]
     IN IF same /\ mat.cols = 0
        THEN /\ rPc' = "aborted"
             /\ UNCHANGED <<reconN, prevMat, rOut, rHist>>
        ELSE /\ prevMat' = out
             /\ rOut' = [status |-> "image", samples |-> Len(rFringe), calib |-> rCalib,
                         alignedTo |-> IF same THEN prevMat.calib ELSE 0,
                         prevRows |-> prevMat.rows, prevCols |-> prevMat.cols,
                         mat |-> out]
             /\ rHist' = Append(rHist, [fringe |-> rFringe, calib |-> rCalib, mat |-> out])
             /\ reconN' = reconN + 1
             /\ rPc' = "idle"
  /\ UNCHANGED <<rFringe, rI, rCalib, rBg, rPh>>
  /\ UNCHANGED <<fixedVars, calibVars, countVars, ringVars, uiVars, workerVars, histVars, acqVars>>

\* ------------------------------------------------------------- acquisition
\* ALAZAR_CALL(fn): ret = fn; success = ret == ApiSuccess
AlazarCall(r) ==
  /\ ret' = r
  /\ success' = (r = "ApiSuccess")

CallOutcomes == {"ApiSuccess", "ApiFailed"}

\* What AlazarWaitAsyncBufferComplete may return; "ApiFailed" stands for
\* every code the switch has no case for.
WaitOutcomes ==
  {"ApiSuccess", "ApiWaitTimeout", "ApiBufferOverflow", "ApiBufferNotReady", "ApiFailed"}

\* The message each case of the switch stores in m_errMsg
WaitErrMsg(r) ==
  CASE r = "ApiWaitTimeout" -> "timeout"
    [] r = "ApiBufferOverflow" -> "buffer overflow"
    [] r = "ApiBufferNotReady" -> "buffer not ready"
    [] OTHER -> "unknown code"

\* AcquisitionControllerObj::startAcquisition: the controller thread starts a
\* run of n buffers
StartAcquisition(n) ==
  /\ aPc = "idle"
  /\ m_acquiring' = TRUE
  /\ buffersToAcquire' = n
  /\ runs' = runs + 1
  /\ aPc' = "prepare"
  /\ startQueued' = FALSE
  /\ UNCHANGED <<shouldStopAcquiring, acquiringData, callVars, buffersCompleted, bufferIdx, postIdx>>
  /\ UNCHANGED <<posted, m_errMsg, fsState, aSlot, retVal>>
  /\ UNCHANGED <<waitRet, writeFailed, writeReported, abortCalls>>
  /\ UNCHANGED <<wgEnabled, btnText, btnStyle, wgPending>>
  /\ UNCHANGED <<K, rtN, fnVars, calibVars, reconVars, countVars>>
  /\ UNCHANGED <<sigStarted, ringVars, uiVars, workerVars, histVars>>

\* AcquisitionControllerObj::stopAcquisition
StopAcquisition ==
  /\ m_acquiring
  /\ m_acquiring' = FALSE
  /\ shouldStopAcquiring' = TRUE
  /\ UNCHANGED <<aPc, acquiringData, callVars, loopVars, posted, m_errMsg, fsState, aSlot, retVal>>
  /\ UNCHANGED runVars
  /\ UNCHANGED <<sigStarted, restVars, ringVars, uiVars, workerVars, histVars>>

\* DAQ::prepareAcquisition: clears the message, opens the bin file when data
\* is saved, primes the board. r: "ok", "openFailed" or "boardFailed".
PrepareAcquisition(save, r) ==
  /\ aPc = "prepare"
  /\ r = "openFailed" => save
  /\ m_errMsg' = IF r = "openFailed" THEN "open failed" ELSE ""
  /\ fsState' = IF save THEN (IF r = "openFailed" THEN "closed" ELSE "open") ELSE fsState
  /\ aPc' = IF r = "ok" THEN "started" ELSE "idle"
  /\ UNCHANGED <<ctlVars, callVars, loopVars, posted, aSlot, retVal>>
  /\ UNCHANGED runVars
  /\ UNCHANGED <<sigStarted, restVars, ringVars, uiVars, workerVars, histVars>>

\* The controller announces the run (sigAcquisitionStarted, queued to the UI
\* context) before it calls DAQ::acquire. The signal has three receivers in
\* the UI context: the two handlers of the widget and the one of the window.
AcquisitionStarted ==
  /\ aPc = "started"
  /\ sigStarted' = TRUE
  /\ wgPending' = 2
  /\ aPc' = "enter"
  /\ UNCHANGED <<daqVars, runVars>>
  /\ UNCHANGED <<wgEnabled, btnText, btnStyle, startQueued>>
  /\ UNCHANGED <<K, rtN, fnVars, calibVars, reconVars, countVars>>
  /\ UNCHANGED <<ringVars, uiVars, workerVars, histVars>>

\* DAQ::acquire, entry: the flags, ret and success
AcquireEnter ==
  /\ aPc = "enter"
  /\ shouldStopAcquiring' = FALSE
  /\ acquiringData' = TRUE
  /\ ret' = "ApiSuccess"
  /\ success' = TRUE
  /\ retVal' = "none"
  /\ waitRet' = "none"
  /\ writeFailed' = FALSE
  /\ writeReported' = FALSE
  /\ abortCalls' = 0
  /\ aPc' = "before"
  /\ UNCHANGED <<m_acquiring, loopVars, posted, m_errMsg, fsState, aSlot, runs>>
  /\ UNCHANGED <<sigStarted, fixedVars, calibVars, reconVars, ringVars, uiVars, workerVars, histVars>>
  /\ produced' = 0
  /\ fsWritten' = 0
  /\ UNCHANGED quitCalls

\* AlazarBeforeAsyncRead; RETURN_BOOL_IF_FAIL
AcquireBeforeAsyncRead(r) ==
  /\ aPc = "before"
  /\ AlazarCall(r)
  /\ postIdx' = 0
  /\ IF r = "ApiSuccess"
     THEN aPc' = "post" /\ UNCHANGED retVal
     ELSE aPc' = "return" /\ retVal' = "false"
  /\ UNCHANGED <<ctlVars, buffersToAcquire, buffersCompleted, bufferIdx>>
  /\ UNCHANGED <<posted, m_errMsg, fsState, aSlot>>
  /\ UNCHANGED runVars
  /\ UNCHANGED <<sigStarted, restVars, ringVars, uiVars, workerVars, histVars>>

\* for (auto &buf : buffers) AlazarPostAsyncBuffer; RETURN_BOOL_IF_FAIL
AcquirePostBuffer(r) ==
  /\ aPc = "post"
  /\ AlazarCall(r)
  /\ IF r = "ApiSuccess"
     THEN /\ posted' = [posted EXCEPT ![postIdx] = TRUE]
          /\ postIdx' = postIdx + 1
          /\ aPc' = IF postIdx + 1 = NumBuffers THEN "start" ELSE "post"
          /\ UNCHANGED retVal
     ELSE /\ aPc' = "return"
          /\ retVal' = "false"
          /\ UNCHANGED <<posted, postIdx>>
  /\ UNCHANGED <<ctlVars, buffersToAcquire, buffersCompleted, bufferIdx>>
  /\ UNCHANGED <<m_errMsg, fsState, aSlot>>
  /\ UNCHANGED runVars
  /\ UNCHANGED <<sigStarted, restVars, ringVars, uiVars, workerVars, histVars>>

\* defer { AlazarAbortAsyncRead }; AlazarStartCapture; RETURN_BOOL_IF_FAIL;
\* buffersCompleted = 0; bufferIdx = 0
AcquireStartCapture(r) ==
  /\ aPc = "start"
  /\ AlazarCall(r)
  /\ IF r = "ApiSuccess"
     THEN /\ buffersCompleted' = 0
          /\ bufferIdx' = 0
          /\ aPc' = "loop"
          /\ UNCHANGED retVal
     ELSE /\ aPc' = "abort"
          /\ retVal' = "false"
          /\ UNCHANGED <<buffersCompleted, bufferIdx>>
  /\ UNCHANGED <<ctlVars, buffersToAcquire, postIdx>>
  /\ UNCHANGED <<posted, m_errMsg, fsState, aSlot>>
  /\ UNCHANGED runVars
  /\ UNCHANGED <<sigStarted, restVars, ringVars, uiVars, workerVars, histVars>>

\* A faulty variant of AcquireLoopTest: the test lets the loop run once more
\* after the requested number of buffers.
AcquireLoopTestOneMore ==
  /\ aPc = "loop"
  /\ IF success /\ ~shouldStopAcquiring /\ buffersCompleted <= buffersToAcquire
     THEN /\ bufferIdx' = buffersCompleted % NumBuffers
          /\ aPc' = "wait"
          /\ UNCHANGED retVal
     ELSE /\ retVal' = IF success THEN "true" ELSE "false"
          /\ aPc' = "abort"
          /\ UNCHANGED bufferIdx
  /\ UNCHANGED <<ctlVars, callVars, buffersToAcquire, buffersCompleted, postIdx>>
  /\ UNCHANGED <<posted, m_errMsg, fsState, aSlot>>
  /\ UNCHANGED runVars
  /\ UNCHANGED <<sigStarted, restVars, ringVars, uiVars, workerVars, histVars>>

\* while (success && !shouldStopAcquiring && buffersCompleted < buffersToAcquire);
\* bufferIdx = buffersCompleted % buffers.size(); after the loop: return success
AcquireLoopTest ==
  /\ aPc = "loop"
  /\ IF success /\ ~shouldStopAcquiring /\ buffersCompleted < buffersToAcquire
     THEN /\ bufferIdx' = buffersCompleted % NumBuffers
          /\ aPc' = "wait"
          /\ UNCHANGED retVal
     ELSE /\ retVal' = IF success THEN "true" ELSE "false"
          /\ aPc' = "abort"
          /\ UNCHANGED bufferIdx
  /\ UNCHANGED <<ctlVars, callVars, buffersToAcquire, buffersCompleted, postIdx>>
  /\ UNCHANGED <<posted, m_errMsg, fsState, aSlot>>
  /\ UNCHANGED runVars
  /\ UNCHANGED <<sigStarted, restVars, ringVars, uiVars, workerVars, histVars>>

\* A faulty variant of WaitFailed: a timeout is not treated as fatal, the loop goes on
\* to wait again.
WaitFailedRetriesTimeout(r) ==
  IF r = "ApiWaitTimeout"
  THEN /\ success' = TRUE
       /\ aPc' = "loop"
       /\ UNCHANGED <<m_errMsg, retVal, buffersCompleted, posted>>
  ELSE /\ success' = FALSE
       /\ m_errMsg' = WaitErrMsg(r)
       /\ retVal' = "false"
       /\ aPc' = "abort"
       /\ UNCHANGED <<buffersCompleted, posted>>

\* The switch on a result other than ApiSuccess: success stays false, the
\* case stores its message, the loop is left and acquire returns success.
WaitFailed(r) ==
  /\ success' = FALSE
  /\ m_errMsg' = WaitErrMsg(r)
  /\ retVal' = "false"
  /\ aPc' = "abort"
  /\ UNCHANGED <<buffersCompleted, posted>>

\* ret = AlazarWaitAsyncBufferComplete(buf, timeout_ms); success = false;
\* switch (ret)
AcquireWait(r) ==
  /\ aPc = "wait"
  /\ r = "ApiSuccess" => posted[bufferIdx]
  /\ ret' = r
  /\ waitRet' = r
  /\ IF r = "ApiSuccess"
     THEN /\ success' = TRUE
          /\ buffersCompleted' = buffersCompleted + 1
          /\ posted' = [posted EXCEPT ![bufferIdx] = FALSE]
          /\ aPc' = "produce"
          /\ UNCHANGED <<m_errMsg, retVal>>
     ELSE WaitFailed(r)
  /\ UNCHANGED <<ctlVars, buffersToAcquire, bufferIdx, postIdx>>
  /\ UNCHANGED <<fsState, aSlot>>
  /\ UNCHANGED <<runs, writeFailed, writeReported, abortCalls>>
  /\ UNCHANGED <<sigStarted, restVars, ringVars, uiVars, workerVars, histVars>>

\* A faulty variant of AcquireProduce: acquire calls the blocking produce.
AcquireProduceBlocking ==
  /\ aPc = "produce"
  /\ SlotFree(head)
  /\ aSlot' = head
  /\ aPc' = "writeIndex"
  /\ UNCHANGED <<ctlVars, callVars, loopVars, posted, m_errMsg, fsState, retVal>>
  /\ UNCHANGED runVars
  /\ UNCHANGED <<sigStarted, restVars, ringVars, uiVars, workerVars, histVars>>

\* m_ringBuffer->produce_nolock: the next slot in round-robin order, whatever
\* its state
AcquireProduce ==
  /\ aPc = "produce"
  /\ aSlot' = head
  /\ aPc' = "writeIndex"
  /\ UNCHANGED <<ctlVars, callVars, loopVars, posted, m_errMsg, fsState, retVal>>
  /\ UNCHANGED runVars
  /\ UNCHANGED <<sigStarted, restVars, ringVars, uiVars, workerVars, histVars>>

\* the mutate callback of acquire: dat->i = buffersCompleted - 1
AcquireWriteIndex ==
  /\ aPc = "writeIndex"
  /\ buffer' = [buffer EXCEPT ![aSlot].i = buffersCompleted - 1]
  /\ aPc' = "copy"
  /\ UNCHANGED <<ready, head, held, quitSignal>>
  /\ UNCHANGED daqVars
  /\ UNCHANGED runVars
  /\ UNCHANGED <<sigStarted, restVars, uiVars, workerVars, histVars>>

\* if (fringe.size() < buf.size()) fringe.resize(buf.size()); std::copy
CopyBuffer(f, i) ==
  CopyInto(IF Len(f) < BufSize THEN Resize(f, BufSize) ELSE f, FrameData(i, BufSize))

\* the mutate callback of acquire: the copy; then the slot is marked ready
AcquireCopy ==
  /\ aPc = "copy"
  /\ buffer' = [buffer EXCEPT ![aSlot].fringe = CopyBuffer(buffer[aSlot].fringe, buffersCompleted - 1)]
  /\ MarkReady(aSlot)
  /\ aPc' = "save"
  /\ UNCHANGED <<held, quitSignal>>
  /\ UNCHANGED daqVars
  /\ UNCHANGED runVars
  /\ UNCHANGED <<sigStarted, fixedVars, calibVars, reconVars, uiVars, workerVars, histVars>>
  /\ produced' = produced + 1
  /\ UNCHANGED <<fsWritten, quitCalls>>

\* What m_fs.write may do: "ok"; "throws" (std::ios_base::failure, caught:
\* qCritical, success = false); "silent" (the stream's error state is set and
\* nothing is thrown: whether m_fs throws is decided by its exception mask,
\* which the fstream opened in prepareAcquisition does not set).
WriteOutcomes == IF fsState = "open" THEN {"ok", "throws", "silent"} ELSE {"throws", "silent"}

\* if (m_fs.is_open()) { try { m_fs.write } catch { success = false } };
\* if (!success) break
AcquireSave(w) ==
  /\ aPc = "save"
  /\ fsState = "closed" => w = "ok"
  /\ fsState # "closed" => w \in WriteOutcomes
  /\ fsState' = IF w = "ok" THEN fsState ELSE "failed"
  /\ writeFailed' = (writeFailed \/ w # "ok")
  /\ writeReported' = (writeReported \/ w = "throws")
  /\ IF w = "throws"
     THEN /\ success' = FALSE
          /\ retVal' = "false"
          /\ aPc' = "abort"
     ELSE /\ aPc' = "repost"
          /\ UNCHANGED <<success, retVal>>
  /\ UNCHANGED <<ctlVars, ret, loopVars, posted, m_errMsg, aSlot>>
  /\ UNCHANGED <<runs, waitRet, abortCalls>>
  /\ UNCHANGED <<sigStarted, fixedVars, calibVars, reconVars, ringVars, uiVars, workerVars, histVars>>
  /\ fsWritten' = IF fsState = "open" /\ w = "ok" THEN fsWritten + 1 ELSE fsWritten
  /\ UNCHANGED <<produced, quitCalls>>

\* A faulty variant of AcquireRepost: the completed buffer is not handed back
\* to the board.
AcquireRepostSkips(r) ==
  /\ aPc = "repost"
  /\ AlazarCall(r)
  /\ UNCHANGED posted
  /\ aPc' = "loop"
  /\ UNCHANGED <<ctlVars, loopVars, m_errMsg, fsState, aSlot, retVal>>
  /\ UNCHANGED runVars
  /\ UNCHANGED <<sigStarted, restVars, ringVars, uiVars, workerVars, histVars>>

\* ALAZAR_CALL(AlazarPostAsyncBuffer(buf)) at the end of the loop body
AcquireRepost(r) ==
  /\ aPc = "repost"
  /\ AlazarCall(r)
  /\ posted' = [posted EXCEPT ![bufferIdx] = (r = "ApiSuccess")]
  /\ aPc' = "loop"
  /\ UNCHANGED <<ctlVars, loopVars, m_errMsg, fsState, aSlot, retVal>>
  /\ UNCHANGED runVars
  /\ UNCHANGED <<sigStarted, restVars, ringVars, uiVars, workerVars, histVars>>

\* the deferred AlazarAbortAsyncRead: the board gives every buffer back
AcquireAbort(r) ==
  /\ aPc = "abort"
  /\ AlazarCall(r)
  /\ posted' = [b \in 0 .. (NumBuffers - 1) |-> FALSE]
  /\ abortCalls' = abortCalls + 1
  /\ aPc' = "return"
  /\ UNCHANGED <<ctlVars, loopVars, m_errMsg, fsState, aSlot, retVal>>
  /\ UNCHANGED <<runs, waitRet, writeFailed, writeReported>>
  /\ UNCHANGED <<sigStarted, restVars, ringVars, uiVars, workerVars, histVars>>

\* A faulty variant of AcquireReturn: the flag is not cleared on the way out.
AcquireReturnKeepsFlag ==
  /\ aPc = "return"
  /\ UNCHANGED acquiringData
  /\ aPc' = "finished"
  /\ UNCHANGED <<m_acquiring, shouldStopAcquiring, callVars, loopVars>>
  /\ UNCHANGED <<posted, m_errMsg, fsState, aSlot, retVal>>
  /\ UNCHANGED runVars
  /\ UNCHANGED <<sigStarted, restVars, ringVars, uiVars, workerVars, histVars>>

\* the deferred acquiringData = false; acquire has returned retVal
AcquireReturn ==
  /\ aPc = "return"
  /\ acquiringData' = FALSE
  /\ aPc' = "finished"
  /\ UNCHANGED <<m_acquiring, shouldStopAcquiring, callVars, loopVars>>
  /\ UNCHANGED <<posted, m_errMsg, fsState, aSlot, retVal>>
  /\ UNCHANGED runVars
  /\ UNCHANGED <<sigStarted, restVars, ringVars, uiVars, workerVars, histVars>>

\* The controller announces the end of the run (sigAcquisitionFinished); the
\* handler is connected without a context object, so it runs in the
\* controller's context, inside the emit:
\* m_worker->setNoBlockMode(false); tryLoadBinfile(qpath)
OnAcquisitionFinished(ok, n, spf) ==
  /\ aPc = "finished"
  /\ noBlockMode' = FALSE
  /\ datOk' = ok
  /\ datSize' = IF ok THEN n ELSE 0
  /\ datSamples' = IF ok THEN spf ELSE 0
  /\ framePos' = IF ok THEN 0 ELSE framePos
  /\ aPc' = IF ok THEN "fForEach" ELSE "idle"
  /\ UNCHANGED <<uiPc, uiI, uiSlot, uiEvents, m_calib>>
  /\ UNCHANGED <<wPc, wLive, wShouldStop, got, shutdownSeen>>
  /\ UNCHANGED <<sigStarted, daqVars, runVars>>
  /\ UNCHANGED <<restVars, ringVars, histVars>>

\* tryLoadBinfile of the handler: afterDatReaderReady, then loadFrame(0) up to
\* the call of produce
FinishAfterDatReaderReady ==
  /\ aPc = "fForEach"
  /\ ForEachResize(datSamples)
  /\ aPc' = IF m_calib # 0 /\ datOk THEN "fProduce" ELSE "idle"
  /\ UNCHANGED <<ready, head, held, quitSignal>>
  /\ UNCHANGED <<sigStarted, daqVars, runVars>>
  /\ UNCHANGED <<restVars, uiVars, workerVars, histVars>>

\* loadFrame(0) of the handler: produce waits for a free slot
FinishProduceWait ==
  /\ aPc = "fProduce"
  /\ SlotFree(head)
  /\ aSlot' = head
  /\ aPc' = "fMutate"
  /\ UNCHANGED <<ctlVars, callVars, loopVars, posted, m_errMsg, fsState, retVal>>
  /\ UNCHANGED runVars
  /\ UNCHANGED <<sigStarted, restVars, ringVars, uiVars, workerVars, histVars>>

\* loadFrame(0) of the handler: dat->i = i
FinishWriteIndex ==
  /\ aPc = "fMutate"
  /\ buffer' = [buffer EXCEPT ![aSlot].i = Clamp(0, 0, datSize)]
  /\ aPc' = "fRead"
  /\ UNCHANGED <<ready, head, held, quitSignal>>
  /\ UNCHANGED <<sigStarted, daqVars, runVars>>
  /\ UNCHANGED <<restVars, uiVars, workerVars, histVars>>

\* loadFrame(0) of the handler: the read; then produce marks the slot ready
FinishRead ==
  /\ aPc = "fRead"
  /\ buffer' = [buffer EXCEPT ![aSlot].fringe = ReadFrame(buffer[aSlot].fringe, Clamp(0, 0, datSize))]
  /\ MarkReady(aSlot)
  /\ submitted' = Append(submitted,
        [i |-> Clamp(0, 0, datSize),
         fringe |-> ReadFrame(buffer[aSlot].fringe, Clamp(0, 0, datSize))])
  /\ aPc' = "idle"
  /\ UNCHANGED <<held, quitSignal, consumed, consumedLive>>
  /\ UNCHANGED <<sigStarted, daqVars, runVars>>
  /\ UNCHANGED <<restVars, uiVars, workerVars>>

\* ------------------------------------------------------------- initial states
\* After construction: K slots, none ready; the worker started; calibration
\* loaded from the default directory when it exists.
InitRing ==
  /\ K \in 1 .. MaxK
  /\ buffer = [s \in 0 .. (K - 1) |-> EmptyRecord]
  /\ ready = [s \in 0 .. (K - 1) |-> FALSE]
  /\ head = 0
  /\ held = NoSlot
  /\ quitSignal = FALSE

InitWorker ==
  /\ wPc = "loop"
  /\ wLive = FALSE
  /\ noBlockMode = FALSE
  /\ wShouldStop = FALSE
  /\ got = EmptyRecord
  /\ shutdownSeen = FALSE

InitHist ==
  /\ submitted = <<>>
  /\ consumed = <<>>
  /\ consumedLive = <<>>

\* The widget after construction: enabled, the button reads "Start" on green.
InitWidget ==
  /\ wgEnabled = TRUE
  /\ btnText = "Start"
  /\ btnStyle = "green"
  /\ wgPending = 0
  /\ startQueued = FALSE

\* The acquisition controller after construction: no run started.
InitAcq ==
  /\ aPc = "idle"
  /\ sigStarted = FALSE
  /\ m_acquiring = FALSE
  /\ shouldStopAcquiring = FALSE
  /\ acquiringData = FALSE
  /\ ret = "ApiSuccess"
  /\ success = TRUE
  /\ buffersToAcquire = 0
  /\ buffersCompleted = 0
  /\ bufferIdx = 0
  /\ postIdx = 0
  /\ posted = [b \in 0 .. (NumBuffers - 1) |-> FALSE]
  /\ m_errMsg = ""
  /\ fsState = "closed"
  /\ aSlot = 0
  /\ retVal = "none"
  /\ runs = 0
  /\ waitRet = "none"
  /\ writeFailed = FALSE
  /\ writeReported = FALSE
  /\ abortCalls = 0
  /\ produced = 0
  /\ fsWritten = 0
  /\ quitCalls = 0

\* reconBscan has not been called: prevMat is an empty matrix. The worker
\* holds the calibration the constructor loaded, if there was one.
EmptyMat == [rows |-> 0, cols |-> 0, calib |-> 0, i |-> 0, shift |-> 0]

NoOutcome ==
  [status |-> "none", samples |-> 0, calib |-> 0, alignedTo |-> 0,
   prevRows |-> 0, prevCols |-> 0, mat |-> EmptyMat]

InitRecon ==
  /\ calibHeap = IF m_calib = 0 THEN <<>> ELSE <<CalibFiles(0)>>
  /\ wCalib = m_calib
  /\ reconN = 0
  /\ rPc = "idle"
  /\ rFringe = <<>>
  /\ rI = 0
  /\ rCalib = 0
  /\ rBg = 0
  /\ rPh = 0
  /\ prevMat = EmptyMat
  /\ rOut = NoOutcome
  /\ rHist = <<>>

\* A sequence of n frames of spf samples has been loaded into a fresh window
\* with a calibration: afterDatReaderReady has resized the slots, and
\* tryLoadBinfile is about to call loadFrame(0).
Loaded ==
  /\ K \in 1 .. MaxK
  /\ datSize \in 1 .. MaxSeq
  /\ datSamples \in 1 .. MaxSamples
  /\ buffer = [s \in 0 .. (K - 1) |-> [i |-> 0, fringe |-> Fill(datSamples, 0)]]
  /\ ready = [s \in 0 .. (K - 1) |-> FALSE]
  /\ head = 0
  /\ held = NoSlot
  /\ quitSignal = FALSE
  /\ uiPc = "produce"
  /\ uiI = 0
  /\ uiSlot = 0
  /\ uiEvents = 1
  /\ framePos = 0
  /\ m_calib = 1
  /\ InitRecon
  /\ datOk = TRUE
  /\ InitWorker
  /\ InitHist
  /\ InitAcq
  /\ InitWidget

\* No function is called on its own.
InitFn ==
  /\ fnPc = "idle"
  /\ fnIn = NoArgs
  /\ fnOut = NoResult

InitLoaded == Loaded /\ rtN = 0 /\ InitFn

\* ------------------------------------------------------------- playback
\* One producer (the UI context, blocking produce) and one consumer (the
\* worker, blocking consume).
UIProduce == ProduceWait \/ LoadFrameWriteIndex \/ LoadFrameRead

WorkerConsume == WorkerLoop \/ ConsumeBlocking \/ WorkerReadIndex \/ WorkerReadFringe

NextRing ==
  \/ \E i \in 0 .. (MaxSeq + 1) : uiEvents < MaxEvents /\ PosChanged(i)
  \/ ProduceWait
  \/ LoadFrameWriteIndex
  \/ LoadFrameRead
  \/ WorkerLoop
  \/ ConsumeBlocking
  \/ WorkerReadIndex
  \/ WorkerReadFringe

SpecRing == InitLoaded /\ [][NextRing]_vars

FairSpecRing == SpecRing /\ WF_vars(UIProduce) /\ WF_vars(WorkerConsume)

\* C2: with K >= 2, one producer in blocking produce and one consumer in
\* blocking consume, the records returned are at every moment a prefix of the
\* records submitted (no loss, no duplicate, no reordering), and the n-th
\* record submitted is eventually returned.
C2_EveryFrameOnceInOrder ==
  /\ [](K >= 2 => /\ Len(consumed) <= Len(submitted)
                   /\ consumed = SubSeq(submitted, 1, Len(consumed)))
  /\ \A n \in 1 .. MaxEvents :
        (K >= 2 /\ Len(submitted) >= n) ~> (Len(consumed) >= n)

\* C2 witness: every record of a full run has come back, after the producer
\* had to wait for the consumer.
C2_Witness ==
  /\ K >= 2
  /\ Len(submitted) > K
  /\ consumed = submitted

\* ------------------------------------------------------------- round trip
\* N produce calls, then N blocking consume calls (section 8): the consumer
\* takes no step before the N-th record has been submitted.
RtProducing == Len(submitted) < rtN

RtPosChanged == RtProducing /\ uiEvents < rtN /\ \E i \in 0 .. (MaxSeq + 1) : PosChanged(i)
RtProduceWait == RtProducing /\ ProduceWait
RtWriteIndex == RtProducing /\ LoadFrameWriteIndex
RtRead == RtProducing /\ LoadFrameRead
RtWorkerLoop == ~RtProducing /\ Len(consumed) < rtN /\ WorkerLoop
RtConsume == ~RtProducing /\ ConsumeBlocking
RtReadIndex == ~RtProducing /\ WorkerReadIndex
RtReadFringe == ~RtProducing /\ WorkerReadFringe

NextRoundTrip ==
  \/ RtPosChanged
  \/ RtProduceWait
  \/ RtWriteIndex
  \/ RtRead
  \/ RtWorkerLoop
  \/ RtConsume
  \/ RtReadIndex
  \/ RtReadFringe

InitRoundTrip == Loaded /\ rtN \in 1 .. MaxN /\ InitFn

SpecRoundTrip == InitRoundTrip /\ [][NextRoundTrip]_vars

RtDone == Len(consumed) = rtN

RtCompletes == RtDone \/ ENABLED NextRoundTrip

\* C3 (as stated): for K >= 2 and every N the round trip completes and
\* returns the N records in submission order, unmodified.
C3_Original ==
  K >= 2 => /\ RtCompletes
            /\ RtDone => consumed = submitted

\* C3 (amended): for K >= 2 and every N <= K the round trip completes and
\* returns the N records in submission order, unmodified.
C3_RoundTripUpToCapacity ==
  (K >= 2 /\ rtN <= K) => /\ RtCompletes
                           /\ RtDone => consumed = submitted

\* C3 witness: a round trip of N = K records has completed.
C3_Witness ==
  /\ K >= 2
  /\ rtN = K
  /\ RtDone
  /\ consumed = submitted
  /\ \E n \in 1 .. Len(consumed) : consumed[n].i > 0

\* ------------------------------------------------------------- DAQ alone
\* The window after construction: no sequence loaded.
WindowConstructed ==
  /\ InitRing
  /\ uiPc = "idle"
  /\ uiI = 0
  /\ uiSlot = 0
  /\ uiEvents = 0
  /\ framePos = 0
  /\ m_calib \in {0, 1}
  /\ InitRecon
  /\ datOk = FALSE
  /\ datSize = 0
  /\ datSamples = 0
  /\ InitWorker
  /\ InitHist
  /\ InitAcq
  /\ InitWidget
  /\ rtN = 0

InitWindow == WindowConstructed /\ InitFn

\* The acquisition context running DAQ::acquire against the board, and the
\* stop request of the UI. The file the finished handler loads is the one
\* the run wrote: as many frames as buffers written, a buffer per frame.
NextDAQ ==
  \/ \E n \in 1 .. MaxBuffers : runs < MaxRuns /\ StartAcquisition(n)
  \/ StopAcquisition
  \/ \E save \in BOOLEAN, r \in {"ok", "openFailed", "boardFailed"} : PrepareAcquisition(save, r)
  \/ AcquisitionStarted
  \/ AcquireEnter
  \/ \E r \in CallOutcomes : AcquireBeforeAsyncRead(r)
  \/ \E r \in CallOutcomes : AcquirePostBuffer(r)
  \/ \E r \in CallOutcomes : AcquireStartCapture(r)
  \/ AcquireLoopTest
  \/ \E r \in WaitOutcomes : AcquireWait(r)
  \/ AcquireProduce
  \/ AcquireWriteIndex
  \/ AcquireCopy
  \/ \E w \in {"ok", "throws", "silent"} : AcquireSave(w)
  \/ \E r \in CallOutcomes : AcquireRepost(r)
  \/ \E r \in CallOutcomes : AcquireAbort(r)
  \/ AcquireReturn
  \/ \E ok \in BOOLEAN :
        (ok => fsWritten > 0) /\ OnAcquisitionFinished(ok, fsWritten, BufSize)
  \/ FinishAfterDatReaderReady
  \/ FinishProduceWait
  \/ FinishWriteIndex
  \/ FinishRead

SpecDAQ == InitWindow /\ [][NextDAQ]_vars

\* C7: every result of the buffer wait other than ApiSuccess ends the run:
\* acquire is then past its loop (no further wait, no further frame), it
\* returns false, and m_errMsg holds the message of that result.
WaitFault == waitRet \notin {"none", "ApiSuccess"}

\* DAQ::acquire is past its entry and has not returned
AcquirePositions ==
  {"before", "post", "start", "loop", "wait", "produce", "writeIndex", "copy",
   "save", "repost", "abort", "return"}

C7_NonSuccessIsFatal ==
  (WaitFault /\ aPc \in AcquirePositions) =>
     /\ aPc \in {"abort", "return"}
     /\ retVal = "false"
     /\ m_errMsg = WaitErrMsg(waitRet)
     /\ \A r \in WaitOutcomes \ {"ApiSuccess", waitRet} :
          r # "ApiFailed" => m_errMsg # WaitErrMsg(r)

\* C7 witness: the second wait of a run reported an overflow, and acquire is
\* returning.
C7_Witness ==
  /\ aPc = "return"
  /\ waitRet = "ApiBufferOverflow"
  /\ buffersCompleted = 1
  /\ retVal = "false"

\* C8 (as stated): a failed write is reported and the loop goes on to repost
\* the buffer.
C8_WriteFailureDoesNotStop ==
  [][(aPc = "save" /\ fsState' = "failed") => (writeReported' /\ aPc' = "repost")]_vars

\* ------------------------------------------------------------- live acquisition
\* One acquisition run feeding the worker, which the UI context switches to
\* live mode when the run is announced; the window may be closed meanwhile.
\* The run displays only (no file is written) and the board accepts every
\* call; a wait succeeds or times out. SpecDAQ explores the other results.
NextLive ==
  \/ \E n \in 1 .. MaxBuffers : runs < 1 /\ StartAcquisition(n)
  \/ StopAcquisition
  \/ PrepareAcquisition(FALSE, "ok")
  \/ AcquisitionStarted
  \/ AcquireEnter
  \/ AcquireBeforeAsyncRead("ApiSuccess")
  \/ AcquirePostBuffer("ApiSuccess")
  \/ AcquireStartCapture("ApiSuccess")
  \/ AcquireLoopTest
  \/ \E r \in {"ApiSuccess", "ApiWaitTimeout"} : AcquireWait(r)
  \/ AcquireProduce
  \/ AcquireWriteIndex
  \/ AcquireCopy
  \/ AcquireSave("ok")
  \/ AcquireRepost("ApiSuccess")
  \/ AcquireAbort("ApiSuccess")
  \/ AcquireReturn
  \/ OnAcquisitionFinished(FALSE, 0, 0)
  \/ OnAcquisitionStarted
  \/ CloseEvent
  \/ CloseSetShouldStop
  \/ CloseWait
  \/ WorkerLoop
  \/ ConsumeBlocking
  \/ ConsumeLive
  \/ WorkerReadIndex
  \/ WorkerReadFringe

SpecLive == InitWindow /\ [][NextLive]_vars

\* A record is complete when its samples are those of the frame its index names.
Complete(rec) == rec.fringe = FrameData(rec.i, BufSize)

\* C1 (as stated): every record the consumer obtains is complete.
C1_NoTornRecord == \A n \in 1 .. Len(consumed) : Complete(consumed[n])

\* C4: whenever acquire is at a step of produce_nolock, that step can be
\* taken, whatever the state of the consumer and of the slots.
InProduceNoWait == aPc \in {"produce", "writeIndex", "copy"}

C6_LiveConsumeDropsBacklog ==
  \A m \in 1 .. Len(consumed) : \A n \in 1 .. Len(consumed) :
    (m < n /\ consumedLive[m]) => consumed[n].i >= consumed[m].i

\* ------------------------------------------------------------- window close
\* Playback, and the window being closed.
WorkerRun == WorkerLoop \/ ConsumeBlocking \/ WorkerReadIndex \/ WorkerReadFringe

Closing == CloseSetShouldStop \/ CloseWait

NextClose ==
  \/ \E i \in 0 .. (MaxSeq + 1) : uiEvents < MaxEvents /\ PosChanged(i)
  \/ ProduceWait
  \/ LoadFrameWriteIndex
  \/ LoadFrameRead
  \/ CloseEvent
  \/ CloseSetShouldStop
  \/ CloseWait
  \/ WorkerLoop
  \/ ConsumeBlocking
  \/ WorkerReadIndex
  \/ WorkerReadFringe

SpecClose == InitLoaded /\ [][NextClose]_vars

\* The worker thread and the UI thread, once it is in closeEvent, keep running.
FairSpecClose == SpecClose /\ WF_vars(WorkerRun) /\ WF_vars(Closing)

\* C5: the shutdown indicator is returned only after quit() and only once no
\* ready slot remains; and once closeEvent has called quit(), the worker
\* leaves consume and terminates.
C5_QuitReleasesConsumer ==
  /\ [](shutdownSeen => (quitSignal /\ ~AnyReady))
  /\ (uiPc = "closeStop") ~> (wPc = "done")

\* C5 witness: the worker was told to shut down by consume and has terminated.
C5_Witness ==
  /\ shutdownSeen
  /\ wPc = "done"
  /\ uiPc = "closed"

\* ------------------------------------------------------------- the application
\* The three contexts together: the UI context (slider, calibration and
\* sequence loads), one acquisition run into the same ring buffer, and the
\* worker. The board accepts every call and the run displays only; SpecDAQ
\* explores the other results.
NextApp ==
  \/ \E i \in 0 .. (MaxSeq + 1) : uiEvents < MaxAppEvents /\ PosChanged(i)
  \/ \E okc \in BOOLEAN : uiEvents < MaxAppEvents /\ TryLoadCalibDirectory(okc)
  \/ \E ok \in BOOLEAN, n \in 1 .. MaxSeq, spf \in 1 .. MaxSamples :
        uiEvents < MaxAppEvents /\ TryLoadBinfile(ok, n, spf)
  \/ \E ok \in BOOLEAN, n \in 1 .. MaxSeq, spf \in 1 .. MaxSamples :
        uiEvents < MaxAppEvents /\ TryLoadDatDirectory(ok, n, spf)
  \/ AfterDatReaderReady
  \/ ProduceWait
  \/ LoadFrameWriteIndex
  \/ LoadFrameRead
  \/ OnAcquisitionStarted
  \/ \E n \in 1 .. MaxAppBuffers : runs < 1 /\ StartAcquisition(n)
  \/ PrepareAcquisition(FALSE, "ok")
  \/ AcquisitionStarted
  \/ AcquireEnter
  \/ AcquireBeforeAsyncRead("ApiSuccess")
  \/ AcquirePostBuffer("ApiSuccess")
  \/ AcquireStartCapture("ApiSuccess")
  \/ AcquireLoopTest
  \/ AcquireWait("ApiSuccess")
  \/ AcquireProduce
  \/ AcquireWriteIndex
  \/ AcquireCopy
  \/ AcquireSave("ok")
  \/ AcquireRepost("ApiSuccess")
  \/ AcquireAbort("ApiSuccess")
  \/ AcquireReturn
  \/ OnAcquisitionFinished(FALSE, 0, 0)
  \/ WorkerLoop
  \/ ConsumeBlocking
  \/ ConsumeLive
  \/ WorkerReadIndex
  \/ WorkerReadFringe

SpecApp == InitWindow /\ [][NextApp]_vars

\* DAQ::acquire is inside its loop
InAcquireLoop == aPc \in {"loop", "wait", "produce", "writeIndex", "copy", "save", "repost"}

\* C9 (as stated): while acquire is inside its loop, no produce of the UI
\* context is writing a slot of the ring buffer.
C9_AcquireSoleWriter == InAcquireLoop => uiPc \notin {"mutate", "read"}

\* C10 (as stated): when afterDatReaderReady is about to run forEach, no
\* produce_nolock is in progress and the worker neither holds nor reads a slot.
C10_ForEachOnlyWhenQuiescent ==
  uiPc = "forEach" => /\ ~InProduceNoWait
                      /\ held = NoSlot
                      /\ wPc \notin {"readIndex", "readFringe"}

\* ------------------------------------------------------------- playback and reconstruction
\* The UI context loading calibrations and sequences and moving the slider,
\* and the worker, which reconstructs each record before it consumes the next.
RcWorkerLoop == reconN = Len(consumed) /\ rPc = "idle" /\ WorkerLoop

NextRecon ==
  \/ \E i \in 0 .. (MaxSeq + 1) : uiEvents < MaxAppEvents /\ PosChanged(i)
  \/ \E okc \in BOOLEAN : uiEvents < MaxAppEvents /\ TryLoadCalibDirectory(okc)
  \/ \E ok \in BOOLEAN, n \in 1 .. MaxSeq, spf \in 1 .. MaxSamples :
        uiEvents < MaxAppEvents /\ TryLoadBinfile(ok, n, spf)
  \/ \E ok \in BOOLEAN, n \in 1 .. MaxSeq, spf \in 1 .. MaxSamples :
        uiEvents < MaxAppEvents /\ TryLoadDatDirectory(ok, n, spf)
  \/ AfterDatReaderReady
  \/ ProduceWait
  \/ LoadFrameWriteIndex
  \/ LoadFrameRead
  \/ RcWorkerLoop
  \/ ConsumeBlocking
  \/ WorkerReadIndex
  \/ WorkerReadFringe
  \/ \E assertOn \in BOOLEAN : ReconEnter(assertOn)
  \/ ReconBackground
  \/ ReconPhase
  \/ \E offset \in AlignOffsets : ReconAlign(offset)

SpecRecon == InitWindow /\ [][NextRecon]_vars

\* C11 (as stated): an image is only ever aligned against a previous image of
\* its own sequence, here the images made with the same calibration; after a
\* new calibration is loaded the first image is not aligned at all.
C11_NoStaleAlignment ==
  (rOut.status = "image" /\ rOut.samples % ALineSize = 0)
    => rOut.alignedTo \in {0, rOut.calib}

\* C12 (as stated): a number of samples that is not a multiple of ALineSize
\* makes reconBscan fail with an explicit result: the process is not
\* aborted, no image is made of such samples, and prevMat is left as it was.
C12_MalformedFailsFast ==
  /\ rPc # "aborted"
  /\ rOut.status = "image" => rOut.samples % ALineSize = 0

\* C13 (as stated): once a run has ended and the handlers of its start and
\* of its end have both run, the worker is back in blocking mode.
C13_BlockingAfterRun ==
  (runs > 0 /\ aPc = "idle" /\ ~sigStarted) => ~noBlockMode

\* C14 (as stated): a stop requested during a run is never lost: while
\* acquire is in its loop after stopAcquisition was called, the stop flag is
\* still set for the loop test to see.
C14_StopNeverLost ==
  (InAcquireLoop /\ ~m_acquiring) => shouldStopAcquiring

\* ------------------------------------------------------------- one run of acquire
\* The steps DAQ::acquire takes by itself, from its entry to its return: every
\* board call returns (the wait has a timeout) and produce_nolock does not wait.
AcquireSteps ==
  \/ AcquireEnter
  \/ \E r \in CallOutcomes : AcquireBeforeAsyncRead(r)
  \/ \E r \in CallOutcomes : AcquirePostBuffer(r)
  \/ \E r \in CallOutcomes : AcquireStartCapture(r)
  \/ AcquireLoopTest
  \/ \E r \in WaitOutcomes : AcquireWait(r)
  \/ AcquireProduce
  \/ AcquireWriteIndex
  \/ AcquireCopy
  \/ \E w \in {"ok", "throws", "silent"} : AcquireSave(w)
  \/ \E r \in CallOutcomes : AcquireRepost(r)
  \/ \E r \in CallOutcomes : AcquireAbort(r)
  \/ AcquireReturn

NextAcquire ==
  \/ \E n \in 1 .. MaxBuffers : runs < MaxAcqRuns /\ StartAcquisition(n)
  \/ StopAcquisition
  \/ \E save \in BOOLEAN, r \in {"ok", "openFailed", "boardFailed"} : PrepareAcquisition(save, r)
  \/ AcquisitionStarted
  \/ AcquireSteps
  \/ OnAcquisitionFinished(FALSE, 0, 0)

SpecAcquire == InitWindow /\ [][NextAcquire]_vars

\* Every step of AcquireSteps changes the position of acquire or its count
\* of posted buffers.
acquireView == <<aPc, postIdx>>

FairSpecAcquire == SpecAcquire /\ WF_acquireView(AcquireSteps)

\* C15: acquire always terminates: once entered it returns; in its loop the
\* number of successful waits never exceeds buffersToAcquire; and a wait
\* that failed is followed by the abort, never by another wait.
C15_AcquireTerminates ==
  /\ [](InAcquireLoop => buffersCompleted <= buffersToAcquire)
  /\ [][(aPc = "wait" /\ aPc' # "wait" /\ waitRet' # "ApiSuccess") => aPc' = "abort"]_acquireView
  /\ (aPc = "enter") ~> (aPc = "finished")

\* C15 witness: a run of more than one buffer has returned after as many
\* successful waits as buffers were asked for.
C15_Witness ==
  /\ aPc = "finished"
  /\ retVal = "true"
  /\ buffersToAcquire > 1
  /\ buffersCompleted = buffersToAcquire

\* C16 (as stated): when the loop of acquire has ended after at least one
\* wait and m_fs is open, as many buffers were written to m_fs as frames
\* were produced into the ring buffer, and as many as waits succeeded.
C16_SinkConsistent ==
  (aPc = "abort" /\ waitRet # "none" /\ fsState # "closed") =>
     /\ fsWritten = produced
     /\ produced = buffersCompleted

\* C17: a reconBscan call that has read the background and the phase table
\* has read both from one calibration, whatever tryLoadCalibDirectory did
\* in the meantime.
C17_OneCalibrationPerCall ==
  rPc = "align" => rBg = rPh

\* C17 witness: a calibration was loaded while reconBscan was running on a
\* frame with lines; the call has read the background and the phase table of
\* the calibration it started with, not of the new one.
C17_Witness ==
  /\ rPc = "align"
  /\ NLines(rFringe) > 0
  /\ wCalib # rCalib
  /\ rBg = calibHeap[rCalib].background
  /\ rPh = calibHeap[rCalib].phase
  /\ rBg # calibHeap[wCalib].background

\* C18: once afterDatReaderReady has run forEach with the resize to
\* samplesPerFrame, every slot has that many samples, and so has the record
\* the next produce hands to the callback of loadFrame.
C18_ForEachResizesEverySlot ==
  /\ uiPc \in {"produce", "mutate", "read"} =>
        \A s \in Slots : Len(buffer[s].fringe) = datSamples
  /\ uiPc \in {"mutate", "read"} => Len(buffer[uiSlot].fringe) = datSamples

\* C18 witness: a sequence of more than one sample per frame was loaded into
\* a ring buffer of more than one slot, and the callback of loadFrame has
\* been handed its record.
C18_Witness ==
  /\ uiPc = "mutate"
  /\ K > 1
  /\ datSamples > 1
  /\ \A s \in Slots : Len(buffer[s].fringe) = datSamples

\* ------------------------------------------------------------- repeated quit
\* Frames loaded by the UI context, the worker in blocking consume, and
\* quit() called any number of times at any moment.
NextQuit ==
  \/ \E i \in 0 .. (MaxSeq + 1) : uiEvents < MaxEvents /\ PosChanged(i)
  \/ ProduceWait
  \/ LoadFrameWriteIndex
  \/ LoadFrameRead
  \/ quitCalls < MaxQuits /\ RingQuit
  \/ WorkerLoop
  \/ ConsumeBlocking
  \/ WorkerReadIndex
  \/ WorkerReadFringe

SpecQuit == InitLoaded /\ [][NextQuit]_vars

C20_IndicesIncrease ==
  \A n \in 1 .. (Len(consumed) - 1) : consumed[n].i < consumed[n + 1].i

\* ------------------------------------------------------------- calls of reconBscan
\* The worker has obtained frame i of a sequence whose frames have the given
\* number of whole A-lines, and hands it to reconBscan.
WorkerGotFrame(i, lines) ==
  /\ rPc = "idle"
  /\ reconN = Len(consumed)
  /\ Len(consumed) < MaxCalls
  /\ consumed' = Append(consumed, [i |-> i, fringe |-> FrameData(i, lines * ALineSize)])
  /\ UNCHANGED <<submitted, consumedLive>>
  /\ UNCHANGED <<restVars, ringVars, uiVars, workerVars, acqVars>>

NextReconCalls ==
  \/ \E i \in 0 .. (MaxSeq - 1), lines \in 0 .. MaxLines : WorkerGotFrame(i, lines)
  \/ ReconEnter(TRUE)
  \/ ReconBackground
  \/ ReconPhase
  \/ \E offset \in AlignOffsets : ReconAlign(offset)

SpecReconCalls == InitWindow /\ [][NextReconCalls]_vars

\* C21: when prevMat is empty or has another size than the image, the image
\* is returned without a shift; and after every call prevMat is the image
\* the call returned.
C21_AlignmentSeeds ==
  rOut.status = "image" =>
    /\ prevMat = rOut.mat
    /\ (rOut.prevRows # rOut.mat.rows \/ rOut.prevCols # rOut.mat.cols)
          => rOut.mat.shift = 0

\* C21 witness: the second call returned an image of more than one column
\* after an image of another width: it is not shifted, and prevMat holds it.
C21_Witness ==
  /\ rOut.status = "image"
  /\ Len(rHist) = 2
  /\ rOut.prevRows = rOut.mat.rows
  /\ rOut.prevCols # rOut.mat.cols
  /\ rOut.mat.cols > 1
  /\ rOut.mat.shift = 0
  /\ prevMat = rOut.mat

\* ------------------------------------------- linearisation of one A-line
\* Step 2 of reconBscan on one A-line of n samples, and the windowing that
\* reads its result. phaseCalib is the table of the calibration, alineBuf the
\* background-corrected samples; both are indexed from 0 as in the code.
Coeffs == {0, 1}
SampleValues == {1, 2}
PhaseTables(n) ==
  [0 .. (n - 1) -> [idx : 0 .. (n - 2), l_coeff : Coeffs, r_coeff : Coeffs]]
ALines(n) == [0 .. (n - 1) -> SampleValues]

\* std::vector<T> v(n): n value-initialised elements
ZeroVector(n) == [i \in 0 .. (n - 1) |-> 0]

\* for (int i = 0; i < ALineSize - 1; ++i)
InterpolatedIdx(n) == 0 .. (n - 2)

\* the entries of calib.phaseCalib the loop reads
PhaseCalibReads(phaseCalib, n) ==
  InterpolatedIdx(n) \cup {phaseCalib[i].idx : i \in InterpolatedIdx(n)}

\* A faulty variant of ALineReads: the right neighbour is taken one sample
\* further.
ALineReadsOneFurther(phaseCalib, n) ==
  UNION {{phaseCalib[i].idx, phaseCalib[i].idx + 2} : i \in InterpolatedIdx(n)}

\* the elements of alineBuf the loop reads
ALineReads(phaseCalib, n) ==
  UNION {{phaseCalib[i].idx, phaseCalib[i].idx + 1} : i \in InterpolatedIdx(n)}

\* linearKFringe after the loop: idx is read from entry i, the weights from
\* entry idx; the last element keeps the value the vector was made with
LinearKFringe(phaseCalib, alineBuf, n) ==
  [i \in 0 .. (n - 1) |->
     IF i \in InterpolatedIdx(n)
     THEN LET idx == phaseCalib[i].idx
              unit == phaseCalib[idx]
          IN alineBuf[idx] * unit.l_coeff + alineBuf[idx + 1] * unit.r_coeff
     ELSE ZeroVector(n)[i]]

LinearizeLine ==
  /\ fnPc = "call"
  /\ fnIn.fn = "linearize"
  /\ fnOut' = [fn |-> "linearize",
               linearKFringe |-> LinearKFringe(fnIn.phaseCalib, fnIn.alineBuf, fnIn.n),
               phaseCalibReads |-> PhaseCalibReads(fnIn.phaseCalib, fnIn.n),
               alineReads |-> ALineReads(fnIn.phaseCalib, fnIn.n),
               windowed |-> 0 .. (fnIn.n - 1)]
  /\ fnPc' = "done"
  /\ UNCHANGED <<K, rtN, fnIn, widgetVars>>
  /\ UNCHANGED <<calibVars, reconVars, countVars, ringVars, uiVars, workerVars, histVars, acqVars>>

\* One A-line and one table whose idx values lie in [0, n-2].
InitLinearize ==
  /\ WindowConstructed
  /\ K = 1
  /\ m_calib = 0
  /\ fnPc = "call"
  /\ fnIn \in [fn : {"linearize"}, n : {LinSize},
               phaseCalib : PhaseTables(LinSize), alineBuf : ALines(LinSize)]
  /\ fnOut = NoResult

NextLinearize == LinearizeLine

SpecLinearize == InitLinearize /\ [][NextLinearize]_vars

\* C22: with every idx of the table in [0, n-2], the interpolation reads
\* table entries and corrected samples at indices in [0, n-1] only, and the
\* last sample, which it does not compute, is zero when it is windowed.
C22_LinearizationInBounds ==
  fnOut.fn = "linearize" =>
    /\ fnOut.phaseCalibReads \subseteq 0 .. (fnIn.n - 1)
    /\ fnOut.alineReads \subseteq 0 .. (fnIn.n - 1)
    /\ (fnIn.n - 1) \in fnOut.windowed
    /\ fnOut.linearKFringe[fnIn.n - 1] = 0

\* C22 witness: an entry with idx = n-2 was used, so the last corrected
\* sample was read as a right neighbour.
C22_Witness ==
  /\ fnOut.fn = "linearize"
  /\ \E i \in InterpolatedIdx(fnIn.n) : fnIn.phaseCalib[i].idx = fnIn.n - 2
  /\ (fnIn.n - 1) \in fnOut.alineReads

\* C23: for each i in [0, n-2], linear[i] is the blend of the two corrected
\* samples at table[i].idx and table[i].idx + 1 with the weights stored at
\* table entry i.
C23_WeightsOfEntryI ==
  fnOut.fn = "linearize" =>
    \A i \in 0 .. (fnIn.n - 2) :
      LET e == fnIn.phaseCalib[i]
      IN fnOut.linearKFringe[i] =
           fnIn.alineBuf[e.idx] * e.l_coeff + fnIn.alineBuf[e.idx + 1] * e.r_coeff

\* ------------------------------------------------------------ logCompress
\* A value of the floating type T: NaN, or a number kept in units of
\* 1/ScoreScale.
ScoreScale == 10
MaxPixel == 255
NaN == [nan |-> TRUE, v |-> 0]
Num(v) == [nan |-> FALSE, v |-> v]

\* val after line 92, one per output sample: contrast * (10 * log10(re^2 +
\* im^2) + brightness). It is NaN when contrast is 0 and the power is 0.
Scores == {NaN} \cup {Num(v) : v \in {0 - 500, 0 - 1, 0, 7, 1007, 2550, 2551, 4000}}

\* val = val < 0 ? 0 : val > 255 ? 255 : val; both comparisons are false of NaN
ClampVal(val) ==
  IF ~val.nan /\ val.v < 0 THEN Num(0)
  ELSE IF ~val.nan /\ val.v > MaxPixel * ScoreScale THEN Num(MaxPixel * ScoreScale)
  ELSE val

\* static_cast<Tout>(val) as instantiated by the call in reconBscan: outptr
\* is a T *, so Tout is deduced as T and the value is stored as it is
StaticCastTout(val) == val

\* the samples outptr[0 .. imageDepth-1] after the call
LogCompress(imageDepth, scores) ==
  [i \in 0 .. (imageDepth - 1) |-> StaticCastTout(ClampVal(scores[i]))]

LogCompressLine ==
  /\ fnPc = "call"
  /\ fnIn.fn = "logCompress"
  /\ fnOut' = [fn |-> "logCompress",
               outptr |-> LogCompress(fnIn.imageDepth, fnIn.scores)]
  /\ fnPc' = "done"
  /\ UNCHANGED <<K, rtN, fnIn, widgetVars>>
  /\ UNCHANGED <<calibVars, reconVars, countVars, ringVars, uiVars, workerVars, histVars, acqVars>>

InitLogCompress ==
  /\ WindowConstructed
  /\ K = 1
  /\ m_calib = 0
  /\ fnPc = "call"
  /\ \E d \in 1 .. MaxDepth :
       fnIn \in [fn : {"logCompress"}, imageDepth : {d}, scores : [0 .. (d - 1) -> Scores]]
  /\ fnOut = NoResult

NextLogCompress == LogCompressLine

SpecLogCompress == InitLogCompress /\ [][NextLogCompress]_vars

\* the whole part of a number that is not negative
Truncated(val) == Num((val.v \div ScoreScale) * ScoreScale)

\* C24: for every score s the stored sample is 0 when s < 0, 255 when
\* s > 255 and s truncated otherwise, every sample lies in [0, 255], and
\* exactly imageDepth samples are written.
C24_ClampedAndTruncated ==
  fnOut.fn = "logCompress" =>
    /\ DOMAIN fnOut.outptr = 0 .. (fnIn.imageDepth - 1)
    /\ \A i \in DOMAIN fnOut.outptr :
         LET s == fnIn.scores[i]
             px == fnOut.outptr[i]
         IN /\ ~px.nan
            /\ px.v >= 0
            /\ px.v <= MaxPixel * ScoreScale
            /\ (~s.nan /\ s.v < 0) => px = Num(0)
            /\ (~s.nan /\ s.v > MaxPixel * ScoreScale) => px = Num(MaxPixel * ScoreScale)
            /\ (~s.nan /\ s.v >= 0 /\ s.v <= MaxPixel * ScoreScale) => px = Truncated(s)

\* ------------------------------------------------------------ determinism
\* C25: two calls of reconBscan with the same calibration and the same raw
\* frame return the same image, whatever was reconstructed before them.
C25_SameInputsSameImage ==
  \A a, b \in 1 .. Len(rHist) :
    (rHist[a].fringe = rHist[b].fringe /\ rHist[a].calib = rHist[b].calib)
      => /\ rHist[a].mat.rows = rHist[b].mat.rows
         /\ rHist[a].mat.cols = rHist[b].mat.cols
         /\ rHist[a].mat.shift = rHist[b].mat.shift

\* --------------------------------------------------- distortion correction
\* The block of reconBscan after mat = mat.t(): the image has one column per
\* raw A-line. Columns are named by their index; a rectangle of the image is
\* the interval of columns it covers.
OversampledLines == 2200
TheoryLines == 2000
ExVivoLines == 2500
LineCounts ==
  {0, 1, 2, TheoryLines - 1, TheoryLines, OversampledLines - 1, OversampledLines,
   OversampledLines + 1, ExVivoLines - 1, ExVivoLines, ExVivoLines + 1}

\* cv::Rect(x, 0, width, rows)
Columns(x, width) == [lo |-> x, hi |-> x + width - 1]

\* round(phaseCorrelate(first, last).x) for strips of corrWidth columns: the
\* peak of the correlation surface relative to its centre
DistOffsets(corrWidth) == (0 - (corrWidth \div 2)) .. (corrWidth \div 2)

\* the two strips getDistortionOffset takes from the image
StripColumns(theoryWidth, corrWidth) ==
  {Columns(0, corrWidth), Columns(theoryWidth, corrWidth)}

\* A faulty variant of NeedsCorrection: the ex vivo line count is corrected too.
NeedsCorrectionExVivo(nLines) == nLines = OversampledLines \/ nLines = ExVivoLines

\* if (nLines == 2500) {} else if (nLines == 2200) { ... }
NeedsCorrection(nLines) == nLines # ExVivoLines /\ nLines = OversampledLines

\* the image after the block, and the columns of the assembled image read
DistortionCorrection(nLines, distOffset) ==
  IF NeedsCorrection(nLines)
  THEN LET theoreticalALines == TheoryLines
       IN [fn |-> "distortion", cols |-> theoreticalALines, content |-> "resized",
           reads |-> StripColumns(theoreticalALines, nLines - theoreticalALines)
                       \cup {Columns(0, theoreticalALines + distOffset)}]
  ELSE [fn |-> "distortion", cols |-> nLines, content |-> "assembled", reads |-> {}]

CorrectDistortion ==
  /\ fnPc = "call"
  /\ fnIn.fn = "distortion"
  /\ fnOut' = DistortionCorrection(fnIn.nLines, fnIn.distOffset)
  /\ fnPc' = "done"
  /\ UNCHANGED <<K, rtN, fnIn, widgetVars>>
  /\ UNCHANGED <<calibVars, reconVars, countVars, ringVars, uiVars, workerVars, histVars, acqVars>>

InitDistortion ==
  /\ WindowConstructed
  /\ K = 1
  /\ m_calib = 0
  /\ fnPc = "call"
  /\ fnIn \in [fn : {"distortion"}, nLines : LineCounts,
               distOffset : DistOffsets(OversampledLines - TheoryLines)]
  /\ fnOut = NoResult

NextDistortion == CorrectDistortion

SpecDistortion == InitDistortion /\ [][NextDistortion]_vars

\* C26: only images of 2200 lines are corrected; they come out 2000 columns
\* wide, and only columns of the assembled image are read. Every other line
\* count, 2500 included, comes out with one column per raw A-line and the
\* assembled content.
C26_DistortionOnlyFor2200 ==
  fnOut.fn = "distortion" =>
    IF fnIn.nLines = OversampledLines
    THEN /\ fnOut.content = "resized"
         /\ fnOut.cols = TheoryLines
         /\ \A r \in fnOut.reads : 0 <= r.lo /\ r.lo <= r.hi /\ r.hi <= fnIn.nLines - 1
    ELSE /\ fnOut.content = "assembled"
         /\ fnOut.cols = fnIn.nLines
         /\ fnOut.reads = {}

\* C26 witness: an image of 2200 lines was corrected with the largest offset,
\* and the last column of the assembled image was read by the second strip.
C26_Witness ==
  /\ fnOut.fn = "distortion"
  /\ fnIn.nLines = OversampledLines
  /\ fnIn.distOffset = (OversampledLines - TheoryLines) \div 2
  /\ \E r \in fnOut.reads : r.hi = fnIn.nLines - 1
  /\ fnOut.cols = TheoryLines

\* ------------------------------------------------ the hardware buffers
AllPosted == \A b \in 0 .. (NumBuffers - 1) : posted[b]

\* the callback and the save read buffers[bufferIdx]
ReadsBuffer == aPc \in {"produce", "writeIndex", "copy", "save"}

\* C27: every buffer is posted when capture is started; the buffer waited on
\* is buffersCompleted mod P and is posted then, as is every buffer completed
\* earlier; the buffer the software reads is not posted.
C27_BufferRotation ==
  /\ aPc = "start" => AllPosted
  /\ aPc = "wait" => /\ bufferIdx = buffersCompleted % NumBuffers
                     /\ posted[bufferIdx]
                     /\ AllPosted
  /\ ReadsBuffer => ~posted[bufferIdx]

\* C27 witness: acquire waits on a buffer it has completed and reposted before.
C27_Witness ==
  /\ aPc = "wait"
  /\ buffersCompleted >= NumBuffers
  /\ bufferIdx = buffersCompleted % NumBuffers
  /\ posted[bufferIdx]

\* C29: acquiringData is true while acquire executes and false when it does
\* not, whichever way it returned.
C29_AcquiringDataTracksAcquire ==
  /\ aPc \in AcquirePositions => acquiringData
  /\ aPc \notin (AcquirePositions \cup {"enter"}) => ~acquiringData
  /\ aPc = "enter" => ~acquiringData

\* C29 witness: acquire returned false from the posting loop, before the
\* abort was deferred, and the flag is cleared.
C29_Witness ==
  /\ aPc = "finished"
  /\ retVal = "false"
  /\ abortCalls = 0
  /\ postIdx > 0
  /\ ~acquiringData

\* C30: when acquire has returned after posting at least one buffer, it has
\* called AlazarAbortAsyncRead exactly once and no buffer is posted.
C30_AbortOnEveryExit ==
  (aPc = "finished" /\ postIdx > 0) =>
     /\ abortCalls = 1
     /\ \A b \in 0 .. (NumBuffers - 1) : ~posted[b]

\* ------------------------------------------------------ loadFrame's index
\* loadFrame is past its test and has not finished the record
LoadFramePositions == {"produce", "mutate", "read"}

\* C28: for a sequence of n >= 1 frames, the index loadFrame hands to the
\* reader and stores in the record lies in [0, n-1], and loadFrame makes a
\* record only with a calibration loaded and the reader ok.
C28_FrameIndexInSequence ==
  /\ uiPc \in LoadFramePositions => (m_calib # 0 /\ datOk)
  /\ (uiPc \in LoadFramePositions /\ datSize >= 1) => (0 <= uiI /\ uiI <= datSize - 1)

\* ------------------------------------------- acquisition control widget
\* The clicked handler of m_btnStartStopAcquisition (UI context). A click is
\* delivered to an enabled widget only, and after the handlers queued before it.
ClickStartStop ==
  /\ uiPc = "idle"
  /\ wgEnabled
  /\ wgPending = 0
  /\ wgEnabled' = FALSE
  /\ IF m_acquiring
     THEN /\ btnText' = "Stopping"
          /\ btnStyle' = "yellow"
          /\ m_acquiring' = FALSE
          /\ shouldStopAcquiring' = TRUE
          /\ UNCHANGED startQueued
     ELSE /\ btnText' = "Starting"
          /\ startQueued' = TRUE
          /\ UNCHANGED <<btnStyle, m_acquiring, shouldStopAcquiring>>
  /\ UNCHANGED <<wgPending, K, rtN, fnVars, calibVars, reconVars, countVars>>
  /\ UNCHANGED <<aPc, sigStarted, acquiringData, callVars, loopVars>>
  /\ UNCHANGED <<posted, m_errMsg, fsState, aSlot, retVal, runVars>>
  /\ UNCHANGED <<ringVars, uiVars, workerVars, histVars>>

\* the first handler connected to sigAcquisitionStarted ("State changed to
\* running")
OnStartedRunning ==
  /\ uiPc = "idle"
  /\ wgPending = 2
  /\ wgEnabled' = TRUE
  /\ btnText' = "Stop"
  /\ btnStyle' = "red"
  /\ wgPending' = 1
  /\ UNCHANGED <<startQueued, K, rtN, fnVars, calibVars, reconVars, countVars>>
  /\ UNCHANGED <<ringVars, uiVars, workerVars, histVars, acqVars>>

\* the second handler ("State changed to stopped"), connected to
\* sigAcquisitionStarted as well
OnStartedStopped ==
  /\ uiPc = "idle"
  /\ wgPending = 1
  /\ wgEnabled' = TRUE
  /\ btnText' = "Start"
  /\ btnStyle' = "green"
  /\ wgPending' = 0
  /\ UNCHANGED <<startQueued, K, rtN, fnVars, calibVars, reconVars, countVars>>
  /\ UNCHANGED <<ringVars, uiVars, workerVars, histVars, acqVars>>

\* what the controller thread does once startAcquisition was invoked
ControllerSteps ==
  \/ \E n \in 1 .. MaxBuffers : startQueued /\ StartAcquisition(n)
  \/ \E save \in BOOLEAN, r \in {"ok", "openFailed", "boardFailed"} : PrepareAcquisition(save, r)
  \/ AcquisitionStarted
  \/ AcquireSteps
  \/ OnAcquisitionFinished(FALSE, 0, 0)

\* the handlers queued for the UI context
QueuedHandlers ==
  \/ OnStartedRunning
  \/ OnStartedStopped
  \/ OnAcquisitionStarted

NextWidget ==
  \/ ClickStartStop
  \/ ControllerSteps
  \/ QueuedHandlers

SpecWidget == InitWindow /\ [][NextWidget]_vars

\* Both threads run their event loops: a queued invocation or handler is
\* run, and the controller goes on with the run it started.
FairSpecWidget == SpecWidget /\ WF_vars(ControllerSteps) /\ WF_vars(QueuedHandlers)

\* C31: a click on start is followed by the widget enabled with "Stop" on
\* red, a click on stop by the widget enabled with "Start" on green, and a
\* disabled widget is always enabled again.
C31_WidgetReenabled ==
  /\ (btnText = "Starting") ~> (wgEnabled /\ wgPending = 0 /\ btnText = "Stop" /\ btnStyle = "red")
  /\ (btnText = "Stopping") ~> (wgEnabled /\ wgPending = 0 /\ btnText = "Start" /\ btnStyle = "green")
  /\ (~wgEnabled) ~> wgEnabled

\* ------------------------------------------------------- circular shifts
\* One row of an image of c columns: row[p] is the pixel of column p,
\* p in 0 .. c-1. Every row is shifted alike.
Pixels == {0, 1}
Rows(c) == [0 .. (c - 1) -> Pixels]
Cols(row) == Cardinality(DOMAIN row)

\* std::rotate(first, first + n, last): the element at n becomes the first
Rotate(row, n) == [j \in DOMAIN row |-> row[(j + n) % Cols(row)]]

\* A faulty variant of Circshift: the columns are copied down instead of
\* rotated, the first idx columns are lost.
CircshiftCopiesDown(row, idx) ==
  LET n == CircIdx(idx, Cols(row))
  IN [j \in DOMAIN row |-> IF j + n < Cols(row) THEN row[j + n] ELSE row[j]]

\* circshift(mat, idx): idx = (idx + mat.cols) % mat.cols; std::rotate per row
Circshift(row, idx) == Rotate(row, CircIdx(idx, Cols(row)))

\* shiftXCircular(src, dst, shiftX): the columns [0, width-shift) are copied
\* to [shift, width), the columns [width-shift, width) to [0, shift)
ShiftXCircular(src, shiftX) ==
  LET width == Cols(src)
      shift == CMod(CMod(shiftX, width) + width, width)
  IN [j \in DOMAIN src |-> IF j >= shift THEN src[j - shift] ELSE src[width - shift + j]]

ShiftRow ==
  /\ fnPc = "call"
  /\ fnIn.fn \in {"circshift", "shiftXCircular"}
  /\ fnOut' = IF fnIn.fn = "circshift"
              THEN [fn |-> "circshift",
                    mat |-> Circshift(fnIn.row, fnIn.k),
                    back |-> Circshift(Circshift(fnIn.row, fnIn.k), 0 - fnIn.k)]
              ELSE [fn |-> "shiftXCircular",
                    mat |-> ShiftXCircular(fnIn.row, fnIn.k),
                    back |-> ShiftXCircular(ShiftXCircular(fnIn.row, fnIn.k), 0 - fnIn.k)]
  /\ fnPc' = "done"
  /\ UNCHANGED <<K, rtN, fnIn, widgetVars>>
  /\ UNCHANGED <<calibVars, reconVars, countVars, ringVars, uiVars, workerVars, histVars, acqVars>>

\* A row of 1 to MaxCols columns and an offset. circshift is called with
\* idx + cols >= 0 and -idx + cols >= 0 (std::rotate needs a middle inside
\* the row), shiftXCircular with any offset.
InitShift ==
  /\ WindowConstructed
  /\ K = 1
  /\ m_calib = 0
  /\ fnPc = "call"
  /\ \E c \in 1 .. MaxCols :
       fnIn \in [fn : {"circshift", "shiftXCircular"}, row : Rows(c),
                 k : (0 - MaxShift) .. MaxShift]
  /\ fnIn.fn = "circshift" => (fnIn.k <= Cols(fnIn.row) /\ 0 - fnIn.k <= Cols(fnIn.row))
  /\ fnOut = NoResult

NextShift == ShiftRow

SpecShift == InitShift /\ [][NextShift]_vars

\* C32: for |k| < c, circshift by k moves column p to (p - k) mod c, by 0 it
\* is the identity, and by k and then -k it restores the image;
\* shiftXCircular by any k moves column p to (p + k) mod c.
C32_ShiftsAreRotations ==
  LET c == Cols(fnIn.row)
  IN /\ (fnOut.fn = "circshift" /\ fnIn.k < c /\ 0 - fnIn.k < c) =>
          /\ DOMAIN fnOut.mat = DOMAIN fnIn.row
          /\ \A p \in DOMAIN fnIn.row : fnOut.mat[(p - fnIn.k) % c] = fnIn.row[p]
          /\ fnIn.k = 0 => fnOut.mat = fnIn.row
          /\ fnOut.back = fnIn.row
     /\ fnOut.fn = "shiftXCircular" =>
          /\ DOMAIN fnOut.mat = DOMAIN fnIn.row
          /\ \A p \in DOMAIN fnIn.row : fnOut.mat[(p + fnIn.k) % c] = fnIn.row[p]

\* C32 witness: a row of three columns that are not all alike was shifted by
\* circshift with a negative offset: it changed, and the shift back restored it.
C32_Witness ==
  /\ fnOut.fn = "circshift"
  /\ Cols(fnIn.row) = 3
  /\ fnIn.k = 0 - 1
  /\ fnOut.mat # fnIn.row
  /\ fnOut.mat[1] = fnIn.row[0]
  /\ fnOut.back = fnIn.row

====
